---- MODULE Spec2Model ----
(***************************************************************************)
(* A model of FMSgridtools/shared/gridobj.py: the GridObj dataclass, its   *)
(* two construction paths (__post_init__ and from_file), write_out_grid,   *)
(* get_agrid_lonlat, get_variable_list and the cached nx/ny/nxp/nyp        *)
(* properties.  Python values are records tagged by "kind"; exceptions are *)
(* results with ok = FALSE and the exception class in err.                 *)
(***************************************************************************)
EXTENDS Integers, Sequences, FiniteSets, TLC

VARIABLES fs, obj, ret, snap, assembled, first, nassign

vars == <<fs, obj, ret, snap, assembled, first, nassign>>

(***************************************************************************)
(* Bounds of the model.                                                    *)
(***************************************************************************)
\* hand assignments to a container's fields after its construction
MaxAssign == 1
\* user edits (detaching, reassigning) of a container whose dimensions are read
MaxEdits == 2
\* rows and columns of the hand-made x and y arrays given to get_agrid_lonlat
MaxShape == 5

(***************************************************************************)
(* Python values.                                                          *)
(***************************************************************************)
Names == {"tile", "x", "y", "dx", "dy", "area", "angle_dx", "angle_dy", "arcx"}

StrNames == {"tile", "arcx"}

DimProps == {"nx", "ny", "nxp", "nyp"}

Paths == {"in.nc", "out.nc"}

None == [kind |-> "none"]

Str(s) == [kind |-> "str", v |-> s]

Bytes(s) == [kind |-> "bytes", v |-> s]

IntVal(n) == [kind |-> "int", v |-> n]

\* a 2-D numeric array: its shape and its row-major buffer (1-based here)
Array(rows, cols, data) == [kind |-> "array", shape |-> <<rows, cols>>, data |-> data]

\* a float scalar holding NaN, and the 1-element array made of it
NaNScalar == [kind |-> "nan"]

NaNArray == [kind |-> "array", shape |-> <<1>>, data |-> <<>>, of |-> "nan"]

\* np.ascontiguousarray(None): a 1-element object array holding None
NoneArray == [kind |-> "array", shape |-> <<1>>, data |-> <<>>, of |-> "none"]

\* the None placed in a Dataset as a 0-d object variable
NullObject == [kind |-> "null"]

IsSet(v) == v # None

(***************************************************************************)
(* The dataset abstraction (xr.Dataset): named variables, each with its    *)
(* dimension names, and the dimension table derived from them.             *)
(***************************************************************************)
Variable(dims, val) == [dims |-> dims, val |-> val]

ShapeOf(var) ==
    IF var.val.kind = "array" THEN var.val.shape
    ELSE [i \in 1..Len(var.dims) |-> 1]

\* the sizes claimed for dimension d by the variables of vs
SizesOf(vs, d) ==
    {ShapeOf(vs[n])[i] : <<n, i>> \in
        {p \in (DOMAIN vs) \X (1..2) : p[2] <= Len(vs[p[1]].dims) /\ vs[p[1]].dims[p[2]] = d}}

DimsOf(vs) == UNION {{vs[n].dims[i] : i \in 1..Len(vs[n].dims)} : n \in DOMAIN vs}

\* xr.Dataset(data_vars=...) raises when two variables disagree on a dimension
DimsConsistent(vs) == \A d \in DimsOf(vs) : Cardinality(SizesOf(vs, d)) = 1

Dataset(vs) == [kind |-> "dataset", vars |-> vs, closed |-> FALSE]

\* Dataset.sizes
sizes(ds) == [d \in DimsOf(ds.vars) |-> CHOOSE n \in SizesOf(ds.vars, d) : TRUE]

\* list(Dataset.data_vars), as a set
data_vars(ds) == DOMAIN ds.vars

\* leaving the "with xr.open_dataset(...) as ds" scope closes ds
Close(ds) == [ds EXCEPT !.closed = TRUE]

(***************************************************************************)
(* Results of an operation: a value, or a raised exception.                *)
(***************************************************************************)
Ok(o, n) == [ok |-> TRUE, err |-> "", obj |-> o, opened |-> n]

Raise(e, n) == [ok |-> FALSE, err |-> e, obj |-> None, opened |-> n]

(***************************************************************************)
(* The container.                                                          *)
(***************************************************************************)
\* the dataclass defaults
GridObj ==
    [grid_data |-> None, grid_file |-> None, tile |-> None,
     _nx |-> None, _ny |-> None, _nxp |-> None, _nyp |-> None,
     x |-> None, y |-> None, dx |-> None, dy |-> None, area |-> None,
     angle_dx |-> None, angle_dy |-> None, arcx |-> None]

\* the nine data fields of a container, by name
Field(o, n) ==
    CASE n = "tile" -> o.tile
      [] n = "x" -> o.x
      [] n = "y" -> o.y
      [] n = "dx" -> o.dx
      [] n = "dy" -> o.dy
      [] n = "area" -> o.area
      [] n = "angle_dx" -> o.angle_dx
      [] n = "angle_dy" -> o.angle_dy
      [] n = "arcx" -> o.arcx

SetFields(o) == {n \in Names : IsSet(Field(o, n))}

\* the values of the nine data fields
Fields(o) == [n \in Names |-> Field(o, n)]

\* bytes.decode('ascii'); a str or a float has no decode
CanDecode(v) == v.kind = "bytes"

decode(v) == Str(v.v)

\* np.ascontiguousarray: at least 1-D, same buffer
ascontiguousarray(v) == IF v.kind = "nan" THEN NaNArray ELSE v

\* the value the extraction stores for variable n of dataset ds
Extracted(ds, n) ==
    IF n \in StrNames THEN decode(ds.vars[n].val) ELSE ascontiguousarray(ds.vars[n].val)

\* a copy-and-paste slip: angle_dy is taken under the test for angle_dx
Extract_CopyPaste(self, ds) ==
    LET varlist == data_vars(ds)
        New(n) == IF n \in varlist THEN Extracted(ds, n) ELSE Field(self, n)
    IN  IF \E n \in StrNames \cap varlist : ~CanDecode(ds.vars[n].val)
        THEN Raise("AttributeError", 0)
        ELSE Ok([self EXCEPT !.tile = New("tile"), !.x = New("x"), !.y = New("y"),
                             !.dx = New("dx"), !.dy = New("dy"), !.area = New("area"),
                             !.angle_dx = New("angle_dx"),
                             !.angle_dy = IF "angle_dx" \in varlist
                                          THEN Extracted(ds, "angle_dx")
                                          ELSE Field(self, "angle_dy"),
                             !.arcx = New("arcx")], 0)

\* the nine "if name in varlist" assignments
Extract(self, ds) ==
    LET varlist == data_vars(ds)
        New(n) == IF n \in varlist THEN Extracted(ds, n) ELSE Field(self, n)
    IN  IF \E n \in StrNames \cap varlist : ~CanDecode(ds.vars[n].val)
        THEN Raise("AttributeError", 0)
        ELSE Ok([self EXCEPT !.tile = New("tile"), !.x = New("x"), !.y = New("y"),
                             !.dx = New("dx"), !.dy = New("dy"), !.area = New("area"),
                             !.angle_dx = New("angle_dx"), !.angle_dy = New("angle_dy"),
                             !.arcx = New("arcx")], 0)

\* gridtools_utils.check_file_is_there: raises when the path is absent
check_file_is_there(files, path) == files[path] # None

\* xr.open_dataset
open_dataset(files, path) == Dataset(files[path].vars)

\* the dataset opened before the existence check
PostInit_OpenFirst(self, files) ==
    IF self.grid_data # None
    THEN Extract(self, self.grid_data)
    ELSE IF self.grid_file # None
    THEN IF ~check_file_is_there(files, self.grid_file.v)
         THEN Raise("FileNotFoundError", 1)
         ELSE LET ds == open_dataset(files, self.grid_file.v)
                  e == Extract([self EXCEPT !.grid_data = ds], ds)
              IN  IF e.ok
                  THEN Ok([e.obj EXCEPT !.grid_data = Close(ds)], 1)
                  ELSE Raise(e.err, 1)
    ELSE Ok(self, 0)

PostInit(self, files) ==
    IF self.grid_data # None
    THEN Extract(self, self.grid_data)
    ELSE IF self.grid_file # None
    THEN IF ~check_file_is_there(files, self.grid_file.v)
         THEN Raise("FileNotFoundError", 0)
         ELSE LET ds == open_dataset(files, self.grid_file.v)
                  e == Extract([self EXCEPT !.grid_data = ds], ds)
              IN  IF e.ok
                  THEN Ok([e.obj EXCEPT !.grid_data = Close(ds)], 1)
                  ELSE Raise(e.err, 1)
    ELSE Ok(self, 0)

\* grid_file=filepath left out of the cls(...) call
from_file_NoPath(filepath, files) ==
    IF ~check_file_is_there(files, filepath)
    THEN Raise("FileNotFoundError", 0)
    ELSE LET ds == open_dataset(files, filepath)
         IN  IF \E n \in StrNames \cap data_vars(ds) : ~CanDecode(ds.vars[n].val)
             THEN Raise("AttributeError", 1)
             ELSE LET made == PostInit([GridObj EXCEPT !.grid_data = ds], files)
                  IN  IF made.ok
                      THEN Ok([made.obj EXCEPT !.grid_data = Close(ds)], 1)
                      ELSE Raise(made.err, 1)

from_file(filepath, files) ==
    IF ~check_file_is_there(files, filepath)
    THEN Raise("FileNotFoundError", 0)
    ELSE LET ds == open_dataset(files, filepath)
             varlist == data_vars(ds)
             Local(n) == IF n \in varlist THEN Extracted(ds, n) ELSE None
         IN  IF \E n \in StrNames \cap varlist : ~CanDecode(ds.vars[n].val)
             THEN Raise("AttributeError", 1)
             ELSE LET made == PostInit([GridObj EXCEPT
                                  !.grid_data = ds, !.grid_file = Str(filepath),
                                  !.tile = Local("tile"), !.x = Local("x"),
                                  !.y = Local("y"), !.dx = Local("dx"),
                                  !.dy = Local("dy"), !.area = Local("area"),
                                  !.angle_dx = Local("angle_dx"),
                                  !.angle_dy = Local("angle_dy"),
                                  !.arcx = Local("arcx")], files)
                  IN  IF made.ok
                      THEN Ok([made.obj EXCEPT !.grid_data = Close(ds)], 1)
                      ELSE Raise(made.err, 1)

(***************************************************************************)
(* write_out_grid.                                                         *)
(***************************************************************************)
\* the dimension names write_out_grid gives each field's DataArray
DimNames(n) ==
    CASE n \in {"x", "y", "angle_dx", "angle_dy"} -> <<"nyp", "nxp">>
      [] n = "dx" -> <<"nyp", "nx">>
      [] n = "dy" -> <<"ny", "nxp">>
      [] n = "area" -> <<"ny", "nx">>
      [] n \in StrNames -> <<"dim_0">>

\* xr.DataArray(data, dims): the number of dims must match the data's
DataArrayOk(v, dims) == v.kind # "array" \/ Len(v.shape) = Len(dims)

\* the local of write_out_grid for field n: a DataArray, or None
WriteLocal(self, n) ==
    IF IsSet(Field(self, n)) THEN Variable(DimNames(n), Field(self, n)) ELSE None

\* xr.Dataset(data_vars={...}) over the nine locals: every key becomes a
\* variable; a None value becomes a 0-d object variable holding None
out_grid_dataset(self) ==
    Dataset([n \in Names |->
                IF WriteLocal(self, n) = None THEN Variable(<<>>, NullObject)
                ELSE WriteLocal(self, n)])

\* Dataset.to_netcdf: a null object variable is stored as a float NaN
to_netcdf(ds) ==
    [kind |-> "file",
     vars |-> [n \in DOMAIN ds.vars |->
                  IF ds.vars[n].val.kind = "null" THEN Variable(<<>>, NaNScalar)
                  ELSE ds.vars[n]]]

write_out_grid(self) ==
    IF \E n \in SetFields(self) : ~DataArrayOk(Field(self, n), DimNames(n))
    THEN [ok |-> FALSE, err |-> "ValueError", ds |-> None, file |-> None]
    ELSE LET ds == out_grid_dataset(self)
         IN  IF ~DimsConsistent(ds.vars)
             THEN [ok |-> FALSE, err |-> "ValueError", ds |-> None, file |-> None]
             ELSE [ok |-> TRUE, err |-> "", ds |-> ds, file |-> to_netcdf(ds)]

(***************************************************************************)
(* get_variable_list.                                                      *)
(***************************************************************************)
\* the names of the set fields instead of the dataset's variables
get_variable_list_FromFields(self) ==
    IF self.grid_data = None
    THEN [ok |-> FALSE, err |-> "AttributeError", val |-> None]
    ELSE [ok |-> TRUE, err |-> "", val |-> [kind |-> "list", v |-> SetFields(self)]]

get_variable_list(self) ==
    IF self.grid_data = None
    THEN [ok |-> FALSE, err |-> "AttributeError", val |-> None]
    ELSE [ok |-> TRUE, err |-> "", val |-> [kind |-> "list", v |-> data_vars(self.grid_data)]]

(***************************************************************************)
(* The cached dimension properties.                                        *)
(***************************************************************************)
\* the body shared by nx, ny, nxp and nyp: cache is the current _n*, dim the
\* dataset dimension, arr the fallback array and axis its axis (1-based)
\* no "is None" test on the cache: the value is computed at every read
Resolve_NoCache(self, cache, dim, arr, axis) ==
    IF self.grid_data # None
    THEN IF dim \in DOMAIN sizes(self.grid_data)
         THEN [ok |-> TRUE, err |-> "", val |-> IntVal(sizes(self.grid_data)[dim])]
         ELSE [ok |-> FALSE, err |-> "KeyError", val |-> None]
    ELSE IF arr # None
    THEN IF axis <= Len(arr.shape)
         THEN [ok |-> TRUE, err |-> "", val |-> IntVal(arr.shape[axis])]
         ELSE [ok |-> FALSE, err |-> "IndexError", val |-> None]
    ELSE [ok |-> TRUE, err |-> "", val |-> cache]

Resolve(self, cache, dim, arr, axis) ==
    IF cache = None
    THEN IF self.grid_data # None
         THEN IF dim \in DOMAIN sizes(self.grid_data)
              THEN [ok |-> TRUE, err |-> "", val |-> IntVal(sizes(self.grid_data)[dim])]
              ELSE [ok |-> FALSE, err |-> "KeyError", val |-> None]
         ELSE IF arr # None
         THEN IF axis <= Len(arr.shape)
              THEN [ok |-> TRUE, err |-> "", val |-> IntVal(arr.shape[axis])]
              ELSE [ok |-> FALSE, err |-> "IndexError", val |-> None]
         ELSE [ok |-> TRUE, err |-> "", val |-> None]
    ELSE [ok |-> TRUE, err |-> "", val |-> cache]

nx(self) == Resolve(self, self._nx, "nx", self.area, 2)

ny(self) == Resolve(self, self._ny, "ny", self.area, 1)

nxp(self) == Resolve(self, self._nxp, "nxp", self.x, 2)

nyp(self) == Resolve(self, self._nyp, "nyp", self.x, 1)

\* property p of self: the returned value, and self with its cache written
Property(self, p) ==
    LET r == CASE p = "nx" -> nx(self) [] p = "ny" -> ny(self)
               [] p = "nxp" -> nxp(self) [] p = "nyp" -> nyp(self)
    IN  [ok |-> r.ok, err |-> r.err, val |-> r.val,
         obj |-> IF ~r.ok THEN self
                 ELSE CASE p = "nx" -> [self EXCEPT !._nx = r.val]
                        [] p = "ny" -> [self EXCEPT !._ny = r.val]
                        [] p = "nxp" -> [self EXCEPT !._nxp = r.val]
                        [] p = "nyp" -> [self EXCEPT !._nyp = r.val]]

(***************************************************************************)
(* get_agrid_lonlat.                                                       *)
(***************************************************************************)
\* np.pi/180 in fixed point, as millionths of a radian per degree
D2R == 17453

\* ndarray.flatten()[k] for a 0-based k
Flat(arr, k) == arr.data[k + 1]

FlatSize(arr) == Len(arr.data)

\* a 1-D float array of n entries
Vector(n, data) == [kind |-> "array", shape |-> <<n>>, data |-> data]

\* the flat index read by the longitude loop at i, by the latitude loop at j
\* the trailing + 1 forgotten
LonIndex_OffByOne(n_x, i) == 2 * n_x + 1 + 2 * i

LonIndex(n_x, i) == 2 * n_x + 1 + 2 * i + 1

LatIndex(n_x, j) == (2 * j + 1) * (2 * n_x + 1) + 1

\* a_lon after "for i in range(nx)"
LonLoop(x_flat, n_x) == [i \in 1..n_x |-> Flat(x_flat, LonIndex(n_x, i - 1)) * D2R]

\* a_lat after "for j in range(ny)": every iteration stores at a_lat[i], with i
\* the last value of the longitude loop's variable, so the last j's value stays
LatLoop(y_flat, n_x, n_y) ==
    [k \in 1..n_y |->
        IF n_y >= 1 /\ k - 1 = n_x - 1
        THEN Flat(y_flat, LatIndex(n_x, n_y - 1)) * D2R
        ELSE 0]

Failed(e) == [ok |-> FALSE, err |-> e, lon |-> None, lat |-> None]

get_agrid_lonlat(self) ==
    IF self.x # None /\ self.y # None
    THEN IF Len(self.x.shape) < 2
         THEN Failed("IndexError")
         ELSE
         LET n_x == (self.x.shape[2] - 1) \div 2
             n_y == (self.x.shape[1] - 1) \div 2
         IN  IF \E i \in 0..(n_x - 1) : LonIndex(n_x, i) >= FlatSize(self.x)
             THEN Failed("IndexError")
             ELSE IF n_y >= 1 /\ LatIndex(n_x, 0) >= FlatSize(self.y)
             THEN Failed("IndexError")
             ELSE IF n_y >= 1 /\ n_x = 0
             THEN Failed("UnboundLocalError")
             ELSE IF n_y >= 1 /\ n_x - 1 >= n_y
             THEN Failed("IndexError")
             ELSE IF \E j \in 1..(n_y - 1) : LatIndex(n_x, j) >= FlatSize(self.y)
             THEN Failed("IndexError")
             ELSE [ok |-> TRUE, err |-> "",
                   lon |-> Vector(n_x, LonLoop(self.x, n_x)),
                   lat |-> Vector(n_y, LatLoop(self.y, n_x, n_y))]
    ELSE [ok |-> TRUE, err |-> "", lon |-> NoneArray, lat |-> NoneArray]

(***************************************************************************)
(* Sample inputs.                                                          *)
(***************************************************************************)
\* a buffer of n distinct values, different for every field name and source
Buffer(n, base) == [k \in 1..n |-> base + k]

Base(name) ==
    CASE name = "x" -> 100 [] name = "y" -> 200 [] name = "dx" -> 300
      [] name = "dy" -> 400 [] name = "area" -> 500 [] name = "angle_dx" -> 600
      [] name = "angle_dy" -> 700 [] OTHER -> 0

\* the shape of variable name on a grid of cx by cy cells
GridShape(name, cx, cy) ==
    CASE name \in {"x", "y", "angle_dx", "angle_dy"} -> <<cy + 1, cx + 1>>
      [] name = "dx" -> <<cy + 1, cx>>
      [] name = "dy" -> <<cy, cx + 1>>
      [] name = "area" -> <<cy, cx>>

GridArray(name, cx, cy, off) ==
    Array(GridShape(name, cx, cy)[1], GridShape(name, cx, cy)[2],
          Buffer(GridShape(name, cx, cy)[1] * GridShape(name, cx, cy)[2], Base(name) + off))

\* a grid file holding the variables S on a grid of cx by cy cells, its
\* string variables scalars of the given kind ("bytes" or "str")
GridFile(S, strkind, cx, cy) ==
    [kind |-> "file",
     vars |-> [n \in S |->
                  IF n \in StrNames
                  THEN Variable(<<>>, [kind |-> strkind, v |-> n \o "1"])
                  ELSE Variable(DimNames(n), GridArray(n, cx, cy, 0))]]

\* the value a user assigns by hand to field n
HandValue(n, cx, cy) == IF n \in StrNames THEN Str(n \o "2") ELSE GridArray(n, cx, cy, 50)

NoRet == [op |-> "", ok |-> TRUE, err |-> "", val |-> None, path |-> "", opened |-> 0]

NoFirst == [p \in DimProps |-> None]

(***************************************************************************)
(* Actions: one per operation on the container.                            *)
(***************************************************************************)
\* a construction that returned r: the container exists only when r.ok
Constructed(op, path, r) ==
    /\ obj' = IF r.ok THEN r.obj ELSE None
    /\ ret' = [op |-> op, ok |-> r.ok, err |-> r.err, val |-> None,
               path |-> path, opened |-> r.opened]
    /\ first' = NoFirst
    /\ nassign' = 0
    /\ UNCHANGED <<fs, snap, assembled>>

\* GridObj(grid_data=ds)
NewFromDataset(ds) ==
    Constructed("new_dataset", "", PostInit([GridObj EXCEPT !.grid_data = ds], fs))

\* GridObj(grid_file=path)
NewFromFile(path) ==
    Constructed("new_file", path, PostInit([GridObj EXCEPT !.grid_file = Str(path)], fs))

\* GridObj.from_file(path)
CallFromFile(path) == Constructed("from_file", path, from_file(path, fs))

\* the arguments of GridObj(tile=..., x=..., ...): the fields H given by hand
HandMade(H, cx, cy) ==
    LET V(n) == IF n \in H THEN HandValue(n, cx, cy) ELSE None
    IN  [GridObj EXCEPT !.tile = V("tile"), !.x = V("x"), !.y = V("y"),
            !.dx = V("dx"), !.dy = V("dy"), !.area = V("area"),
            !.angle_dx = V("angle_dx"), !.angle_dy = V("angle_dy"),
            !.arcx = V("arcx")]

NewByHand(H, cx, cy) == Constructed("new_hand", "", PostInit(HandMade(H, cx, cy), fs))

WithField(o, n, v) ==
    CASE n = "tile" -> [o EXCEPT !.tile = v]
      [] n = "x" -> [o EXCEPT !.x = v]
      [] n = "y" -> [o EXCEPT !.y = v]
      [] n = "dx" -> [o EXCEPT !.dx = v]
      [] n = "dy" -> [o EXCEPT !.dy = v]
      [] n = "area" -> [o EXCEPT !.area = v]
      [] n = "angle_dx" -> [o EXCEPT !.angle_dx = v]
      [] n = "angle_dy" -> [o EXCEPT !.angle_dy = v]
      [] n = "arcx" -> [o EXCEPT !.arcx = v]

\* obj.<n> = v, by the user
SetField(n, v) ==
    /\ obj # None
    /\ obj' = WithField(obj, n, v)
    /\ ret' = [NoRet EXCEPT !.op = "assign"]
    /\ UNCHANGED <<fs, snap, assembled, first>>

Assign(n, v) ==
    /\ nassign < MaxAssign
    /\ SetField(n, v)
    /\ nassign' = nassign + 1

Reassign(n, v) ==
    /\ obj # None
    /\ nassign < MaxEdits
    /\ Field(obj, n) # v
    /\ SetField(n, v)
    /\ nassign' = nassign + 1

\* obj.grid_data = None, by the user
Detach ==
    /\ obj # None
    /\ nassign < MaxEdits
    /\ obj.grid_data # None
    /\ obj' = [obj EXCEPT !.grid_data = None]
    /\ ret' = [NoRet EXCEPT !.op = "detach"]
    /\ nassign' = nassign + 1
    /\ UNCHANGED <<fs, snap, assembled, first>>

\* obj.write_out_grid(path)
CallWrite(path) ==
    /\ obj # None
    /\ LET w == write_out_grid(obj)
       IN  /\ fs' = IF w.ok THEN [fs EXCEPT ![path] = w.file] ELSE fs
           /\ snap' = IF w.ok THEN Fields(obj) ELSE snap
           /\ assembled' = IF w.ok THEN w.ds ELSE assembled
           /\ ret' = [NoRet EXCEPT !.op = "write", !.ok = w.ok, !.err = w.err, !.path = path]
    /\ UNCHANGED <<obj, first, nassign>>

\* obj.get_variable_list()
CallGetVariableList ==
    /\ obj # None
    /\ LET r == get_variable_list(obj)
       IN  ret' = [NoRet EXCEPT !.op = "get_variable_list", !.ok = r.ok, !.err = r.err,
                                !.val = r.val]
    /\ UNCHANGED <<fs, obj, snap, assembled, first, nassign>>

\* obj.nx, obj.ny, obj.nxp or obj.nyp
Access(p) ==
    /\ obj # None
    /\ LET r == Property(obj, p)
       IN  /\ obj' = r.obj
           /\ ret' = [NoRet EXCEPT !.op = p, !.ok = r.ok, !.err = r.err, !.val = r.val]
           /\ first' = IF first[p] = None /\ r.ok THEN [first EXCEPT ![p] = r.val] ELSE first
    /\ UNCHANGED <<fs, snap, assembled, nassign>>

\* obj.get_agrid_lonlat()
CallGetAgrid ==
    /\ obj # None
    /\ LET r == get_agrid_lonlat(obj)
       IN  ret' = [NoRet EXCEPT !.op = "get_agrid_lonlat", !.ok = r.ok, !.err = r.err,
                                !.val = [kind |-> "lonlat", lon |-> r.lon, lat |-> r.lat]]
    /\ UNCHANGED <<fs, obj, snap, assembled, first, nassign>>

(***************************************************************************)
(* Loading: a grid file with any subset of the known variables is given;   *)
(* containers are built from it in the three ways, inspected and modified. *)
(***************************************************************************)
NoFiles == [p \in Paths |-> None]

Start ==
    /\ obj = None
    /\ ret = NoRet
    /\ snap = None
    /\ assembled = None
    /\ first = NoFirst
    /\ nassign = 0

Init ==
    /\ Start
    /\ \E S \in SUBSET Names, k \in {"bytes", "str"} :
          /\ (k = "str" => S \cap StrNames # {})
          /\ fs = [NoFiles EXCEPT !["in.nc"] = GridFile(S, k, 1, 1)]

Next ==
    \/ \E p \in Paths : fs[p] # None /\ NewFromDataset(open_dataset(fs, p))
    \/ \E p \in Paths : NewFromFile(p)
    \/ \E p \in Paths : CallFromFile(p)
    \/ CallGetVariableList
    \/ \E n \in Names : Assign(n, HandValue(n, 1, 1))

Spec == Init /\ [][Next]_vars

(***************************************************************************)
(* Writing: a container with any subset of its fields set by hand is       *)
(* written out, and containers are built from the written file.            *)
(***************************************************************************)
\* the container GridObj(...) makes of the fields H given by hand
ByHand(H, cx, cy) == PostInit(HandMade(H, cx, cy), NoFiles).obj

InitWrite ==
    /\ ret = NoRet
    /\ snap = None
    /\ assembled = None
    /\ first = NoFirst
    /\ nassign = 0
    /\ fs = NoFiles
    /\ \E H \in SUBSET Names : obj = ByHand(H, 1, 1)

NextWrite ==
    \/ CallWrite("out.nc")
    \/ NewFromFile("out.nc")
    \/ CallFromFile("out.nc")

SpecWrite == InitWrite /\ [][NextWrite]_vars

(***************************************************************************)
(* Dimensions: the cached properties are read while the user detaches the  *)
(* dataset, reassigns area and x, writes and derives the A-grid.           *)
(***************************************************************************)
\* an in-memory dataset holding the variables S on a grid of cx by cy cells
MemoryDataset(S, cx, cy) == Dataset(GridFile(S, "bytes", cx, cy).vars)

InitDims ==
    /\ Start
    /\ fs = NoFiles

NextDims ==
    \/ \E S \in SUBSET {"x", "area"} : obj = None /\ NewFromDataset(MemoryDataset(S, 1, 2))
    \/ \E H \in SUBSET {"x", "area"} : obj = None /\ NewByHand(H, 1, 2)
    \/ Detach
    \/ \E n \in {"x", "area"} : Reassign(n, HandValue(n, 2, 1))
    \/ \E n \in {"x", "area"} : Reassign(n, None)
    \/ \E p \in DimProps : Access(p)
    \/ CallWrite("out.nc")
    \/ CallGetAgrid

SpecDims == InitDims /\ [][NextDims]_vars

(***************************************************************************)
(* A-grid: get_agrid_lonlat on hand-made x and y of every small shape.     *)
(***************************************************************************)
HandArray(n, rows, cols) == Array(rows, cols, Buffer(rows * cols, Base(n)))

InitAgrid ==
    /\ ret = NoRet
    /\ snap = None
    /\ assembled = None
    /\ first = NoFirst
    /\ nassign = 0
    /\ fs = NoFiles
    /\ \E r1 \in 1..MaxShape, c1 \in 1..MaxShape, r2 \in 1..MaxShape, c2 \in 1..MaxShape :
          obj = [GridObj EXCEPT !.x = HandArray("x", r1, c1), !.y = HandArray("y", r2, c2)]

NextAgrid ==
    \/ CallGetAgrid
    \/ \E n \in {"x", "y"} : Reassign(n, None)

SpecAgrid == InitAgrid /\ [][NextAgrid]_vars

(***************************************************************************)
(* The claims.                                                             *)
(***************************************************************************)
\* the variables of the grid file given to the loading specification
GivenVars == DOMAIN fs["in.nc"].vars

\* C1: writing a container and constructing one from the written path gives
\* back every field that was set, with its value, and no field that was unset.
C1_RoundTrip ==
    (ret.op = "new_file" /\ ret.path = "out.nc" /\ snap # None)
        => (ret.ok /\ Fields(obj) = snap)

\* C2: after constructing from a dataset with no field given by hand, a field
\* is set exactly when its variable is in the dataset, and an absent variable
\* is no error.
C2_SetIffPresent ==
    ret.op = "new_dataset"
        => /\ (\A n \in StrNames \cap GivenVars : fs["in.nc"].vars[n].val.kind = "bytes")
                 => ret.ok
           /\ ret.ok => \A n \in Names : IsSet(Field(obj, n)) <=> n \in GivenVars

C2_Witness ==
    /\ ret.op = "new_dataset"
    /\ ret.ok
    /\ SetFields(obj) # {}
    /\ SetFields(obj) # Names

\* C3: the dataset write_out_grid assembles has a variable for a field name
\* exactly when that field is set.
C3_OnlySetFieldsWritten ==
    (ret.op = "write" /\ ret.ok)
        => \A n \in Names : n \in data_vars(assembled) <=> IsSet(Field(obj, n))

\* C4: reading nx, ny, nxp or nyp never fails, and yields no value only when
\* neither the dataset nor the fallback array is there.
C4_AccessNeverFails ==
    ret.op \in DimProps
        => /\ ret.ok
           /\ ret.val = None
                 => /\ obj.grid_data = None
                    /\ (IF ret.op \in {"nx", "ny"} THEN obj.area ELSE obj.x) = None

\* C5: once nx, ny, nxp or nyp has returned a value, every later read of it
\* returns that same value, whatever the user did in between.
C5_StickyCache ==
    \A p \in DimProps :
        (ret.op = p /\ first[p] # None) => (ret.ok /\ ret.val = first[p])

C5_Witness ==
    /\ ret.op = "nx"
    /\ first["nx"] # None
    /\ obj.grid_data = None
    /\ obj.area # None
    /\ obj.area.shape[2] # first["nx"].v

\* C6: constructing from a path that does not exist, by the constructor or by
\* from_file, raises the not-found error before any dataset is opened and
\* leaves no container.
C6_MissingFileFailsFast ==
    (ret.op \in {"new_file", "from_file"} /\ fs[ret.path] = None)
        => /\ ~ret.ok
           /\ ret.err = "FileNotFoundError"
           /\ ret.opened = 0
           /\ obj = None

C6_Witness ==
    /\ ret.op = "new_file"
    /\ fs[ret.path] = None
    /\ ~ret.ok

\* C7: get_variable_list of a container constructed from a dataset with the
\* variables S returns exactly S, also after fields were assigned.
C7_VariableListIsS ==
    ret.op = "get_variable_list" => (ret.ok /\ ret.val.v = GivenVars)

C7_Witness ==
    /\ ret.op = "get_variable_list"
    /\ nassign > 0
    /\ ret.ok
    /\ ret.val.v # SetFields(obj)

\* C8: with x and y of one shape (rows, cols), get_agrid_lonlat returns a
\* latitude array of (rows-1) div 2 entries, entry j being flattened y at
\* (2j+1)(2nx'+1)+1 times pi/180, nx' = (cols-1) div 2.
C8_Latitude ==
    (ret.op = "get_agrid_lonlat" /\ obj.x # None /\ obj.y # None
        /\ obj.x.shape = obj.y.shape)
        => LET n_x == (obj.x.shape[2] - 1) \div 2
               n_y == (obj.x.shape[1] - 1) \div 2
           IN  /\ ret.ok
               /\ ret.val.lat.shape = <<n_y>>
               /\ \A j \in 0..(n_y - 1) :
                     ret.val.lat.data[j + 1]
                         = obj.y.data[((2 * j + 1) * (2 * n_x + 1) + 1) + 1] * D2R

\* C9: when get_agrid_lonlat returns with x and y set, the longitude array has
\* nx' = (cols(x)-1) div 2 entries, entry i being flattened x at 2nx'+1+2i+1,
\* a position inside the array, times pi/180.
C9_Longitude ==
    (ret.op = "get_agrid_lonlat" /\ ret.ok /\ obj.x # None /\ obj.y # None)
        => LET n_x == (obj.x.shape[2] - 1) \div 2
           IN  /\ ret.val.lon.shape = <<n_x>>
               /\ \A i \in 0..(n_x - 1) :
                     /\ 2 * n_x + 1 + 2 * i + 1 < Len(obj.x.data)
                     /\ ret.val.lon.data[i + 1]
                           = obj.x.data[(2 * n_x + 1 + 2 * i + 1) + 1] * D2R

C9_Witness ==
    /\ ret.op = "get_agrid_lonlat"
    /\ ret.ok
    /\ obj.x # None
    /\ obj.y # None
    /\ ret.val.lon.shape[1] >= 2

\* C10: for an existing file, from_file(path) and the constructor given only
\* the path make the same container: same fields, same source path, and the
\* opened dataset kept, closed.
C10_FromFileIsConstructor ==
    (ret.op = "from_file" /\ fs[ret.path] # None)
        => LET c == PostInit([GridObj EXCEPT !.grid_file = Str(ret.path)], fs)
           IN  /\ ret.ok = c.ok
               /\ ret.ok => /\ obj = c.obj
                            /\ obj.grid_file = Str(ret.path)
                            /\ obj.grid_data = Close(open_dataset(fs, ret.path))

C10_Witness ==
    /\ ret.op = "from_file"
    /\ ret.ok
    /\ SetFields(obj) # {}
    /\ SetFields(obj) # Names

====
